---- MODULE Spec2Model ----
(***************************************************************************)
(* Sky Fox video hardware (src/mame/jaleco/skyfox_v.cpp): the frame update *)
(* screen_update_skyfox and its two drawing passes, draw_background (the   *)
(* star field) and draw_sprites.                                           *)
(***************************************************************************)
EXTENDS Integers, Sequences, FiniteSets, TLC

(***************************************************************************)
(* C integer helpers.  All values stay far below 2^31, so int arithmetic   *)
(* never overflows and the operators work on naturals.                     *)
(***************************************************************************)
RECURSIVE And(_, _)
And(a, b) ==
    IF a = 0 \/ b = 0 THEN 0
    ELSE (a % 2) * (b % 2) + 2 * And(a \div 2, b \div 2)

RECURSIVE Or(_, _)
Or(a, b) ==
    IF a = 0 THEN b
    ELSE IF b = 0 THEN a
    ELSE (IF a % 2 = 1 \/ b % 2 = 1 THEN 1 ELSE 0) + 2 * Or(a \div 2, b \div 2)

Shl(a, k) == a * 2^k

Shr(a, k) == a \div 2^k

(***************************************************************************)
(* Contents of the read-only regions and RAM the renderer reads.           *)
(***************************************************************************)
\* "The rom holds 4 chunks of $2000 bytes" (gfx2, the star rom)
BgRomSize == 32768

\* contents of region gfx2, selected by the identity of the rom image
Gfx2Byte(rom, offs) ==
    CASE rom = 0 -> 0
      [] rom = 1 -> (offs * 7 + (offs \div 8192) * 3 + 1) % 256
      [] rom = 3 -> 255
      [] OTHER   -> IF offs % 2 = 0 THEN (offs \div 2) % 4 ELSE (offs * 5) % 256

\* contents of the background position RAM, selected by an image identity
BgRamByte(ram, a) ==
    CASE ram = 0 -> 0
      [] ram = 3 -> 255
      [] OTHER   -> (a * 37 + 200) % 256

(***************************************************************************)
(* The destination bitmap.  A bitmap_ind16 of BitmapWidth x BitmapHeight   *)
(* pixels is kept as its initial contents (init), the rectangle fills made *)
(* since (fills, the latest last) and the pixels written individually      *)
(* after the latest fill that covers them (pix, keyed by the pixel's       *)
(* address y * BitmapWidth + x).                                           *)
(***************************************************************************)
\* bitmap.pix(y % 256, x % 512): the bitmap is 512 pixels wide
BitmapWidth == 512

\* bitmap.pix(y % 256, x % 512): the bitmap is 256 pixels high
BitmapHeight == 256

\* contents of the bitmap before the first frame, by image identity
InitPix(img, y, x) ==
    CASE img = 0 -> 0
      [] OTHER   -> (x + 3 * y) % 65536

\* rectangle: inclusive bounds, as the framework's rectangle class
InRect(r, y, x) ==
    /\ r.min_x <= x /\ x <= r.max_x
    /\ r.min_y <= y /\ y <= r.max_y

RectInside(inner, outer) ==
    /\ outer.min_x <= inner.min_x /\ inner.max_x <= outer.max_x
    /\ outer.min_y <= inner.min_y /\ inner.max_y <= outer.max_y

FullRect ==
    [min_x |-> 0, max_x |-> BitmapWidth - 1,
     min_y |-> 0, max_y |-> BitmapHeight - 1]

\* address of pixel (y, x) in the bitmap, and back
PixAddr(y, x) == y * BitmapWidth + x

AddrY(a) == a \div BitmapWidth

AddrX(a) == a % BitmapWidth

NewBitmap(img) == [init |-> img, fills |-> <<>>, pix |-> <<>>]

RECURSIVE FillPix(_, _, _, _)
FillPix(b, k, y, x) ==
    IF k = 0 THEN InitPix(b.init, y, x)
    ELSE IF InRect(b.fills[k].rect, y, x) THEN b.fills[k].color
    ELSE FillPix(b, k - 1, y, x)

\* bitmap.pix(y, x) read
Pix(b, y, x) ==
    IF PixAddr(y, x) \in DOMAIN b.pix THEN b.pix[PixAddr(y, x)]
    ELSE FillPix(b, Len(b.fills), y, x)

\* bitmap.fill(color, cliprect)
BitmapFill(b, color, r) ==
    LET Uncovered(f) == ~RectInside(f.rect, r)
    IN  [init  |-> b.init,
         fills |-> Append(SelectSeq(b.fills, Uncovered),
                          [rect |-> r, color |-> color]),
         pix   |-> [p \in {q \in DOMAIN b.pix : ~InRect(r, AddrY(q), AddrX(q))}
                        |-> b.pix[p]]]

BitmapPlotAdd(b, w) ==
    [b EXCEPT !.pix = [p \in DOMAIN w \cup DOMAIN @ |->
                          IF p \in DOMAIN w
                          THEN (Pix(b, AddrY(p), AddrX(p)) + w[p]) % 65536
                          ELSE @[p]]]

\* a batch of assignments bitmap.pix(y, x) = w[PixAddr(y, x)]
BitmapPlot(b, w) ==
    [b EXCEPT !.pix = [p \in DOMAIN w \cup DOMAIN @ |->
                          IF p \in DOMAIN w THEN w[p] ELSE @[p]]]

\* two bitmaps hold the same pixels
SameBitmap(a, b) ==
    /\ a.init = b.init
    /\ a.fills = b.fills
    /\ \A p \in DOMAIN a.pix \cup DOMAIN b.pix :
           Pix(a, AddrY(p), AddrX(p)) = Pix(b, AddrY(p), AddrX(p))

(***************************************************************************)
(* draw_background: one star candidate.                                    *)
(***************************************************************************)
Blinking(bg_ctrl) == And(bg_ctrl, 8) # 0

PatternWideMask(bg_ctrl) == Shr(And(bg_ctrl, 14), 1)

Pattern(bg_ctrl) == Shr(And(bg_ctrl, 6), 1)

RamOffset(i) == 224 + And(i, 15) * 2

StarPos(bgram, i) ==
    bgram[RamOffset(i) + 1] * 2
        + (IF And(bgram[RamOffset(i)], 128) # 0 THEN 1 ELSE 0)

StarOffs(bg_ctrl, i) == ((i * 2) % 8192) + Pattern(bg_ctrl) * 8192

StarPen(rom, bg_ctrl, i) == Gfx2Byte(rom, StarOffs(bg_ctrl, i))

StarX(rom, bgram, bg_ctrl, i) ==
    Gfx2Byte(rom, StarOffs(bg_ctrl, i) + 1) * 2 + StarPos(bgram, i) + 91

StarYNoOffset(i) == Shr(i, 4)

StarY(i) == Shr(i, 4) + 1

StarDrawnBlinkOnly(rom, bg_ctrl, i) ==
    And(Shr(bg_ctrl, 4), 3) # And(StarPen(rom, bg_ctrl, i), 3)
        /\ Blinking(bg_ctrl)

StarDrawnSkipPenZero(rom, bg_ctrl, i) ==
    /\ StarPen(rom, bg_ctrl, i) # 0
    /\ \/ And(Shr(bg_ctrl, 4), 3) # And(StarPen(rom, bg_ctrl, i), 3)
       \/ ~Blinking(bg_ctrl)

\* the condition guarding the write of bitmap.pix
StarDrawn(rom, bg_ctrl, i) ==
    And(Shr(bg_ctrl, 4), 3) # And(StarPen(rom, bg_ctrl, i), 3)
        \/ ~Blinking(bg_ctrl)

(***************************************************************************)
(* draw_background: the loop over the 0x1000 star candidates.  The writes  *)
(* of candidates lo..hi are collected with a later candidate overriding an *)
(* earlier one at the same pixel, which is what the loop's successive      *)
(* assignments do.  The clip rectangle is a parameter the loop never reads.*)
(***************************************************************************)
StarCount == 4096

StarWrites(rom, bgram, bg_ctrl, first, last) ==
    LET Star(i) ==
            IF StarDrawn(rom, bg_ctrl, i)
            THEN PixAddr(StarY(i) % BitmapHeight,
                         StarX(rom, bgram, bg_ctrl, i) % BitmapWidth)
                     :> StarPen(rom, bg_ctrl, i)
            ELSE <<>>
        RECURSIVE Range(_, _)
        Range(lo, hi) ==
            IF lo > hi THEN <<>>
            ELSE IF lo = hi THEN Star(lo)
            ELSE Range(((lo + hi) \div 2) + 1, hi) @@ Range(lo, (lo + hi) \div 2)
    IN  Range(first, last)

draw_background(rom, bgram, bg_ctrl, clip) ==
    StarWrites(rom, bgram, bg_ctrl, 0, StarCount - 1)

\* one iteration of the loop of draw_background: what it reads and writes
StarCandidate(rom, bgram, bg_ctrl, i) ==
    [i         |-> i,
     ramoffset |-> RamOffset(i),
     offs      |-> StarOffs(bg_ctrl, i),
     pen       |-> StarPen(rom, bg_ctrl, i),
     x         |-> StarX(rom, bgram, bg_ctrl, i),
     y         |-> StarY(i),
     wr        |-> StarWrites(rom, bgram, bg_ctrl, i, i)]

(***************************************************************************)
(* The sprite graphics (gfx element 0) and the tile blitter.               *)
(***************************************************************************)
\* "Tiles $80-ff are bankswitched to cover $180 tiles" of 32x32, 16 codes each
GfxElements == 6144

\* decoded pixel (px, py) of 8x8 tile code of the sprite rom image gfx
GfxPix(gfx, code, px, py) ==
    LET c == code % GfxElements
    IN  CASE gfx = 0 -> 255
          [] gfx = 1 -> 1
          [] OTHER   -> IF (px + 2 * py + c) % 3 = 0 THEN 255
                        ELSE (c * 16 + py * 8 + px) % 255

\* gfx->transpen(bitmap, cliprect, code, color, flipx, flipy, sx, sy, trans):
\* the pixels one call writes, keyed by pixel address
TileSrc(gfx, call, ty, tx) ==
    GfxPix(gfx, call.code, IF call.flipx # 0 THEN 7 - tx ELSE tx,
                           IF call.flipy # 0 THEN 7 - ty ELSE ty)

transpen(gfx, clip, call) ==
    LET Dec(ty, tx) == TileSrc(gfx, call, ty, tx)
        D == {t \in (0..7) \X (0..7) :
                 /\ InRect(clip, call.sy + t[1], call.sx + t[2])
                 /\ Dec(t[1], t[2]) # call.trans}
    IN  [p \in {PixAddr(call.sy + t[1], call.sx + t[2]) : t \in D}
            |-> Dec(AddrY(p) - call.sy, AddrX(p) - call.sx)]

(***************************************************************************)
(* draw_sprites: one entry of the sprite table.                            *)
(***************************************************************************)
\* m_screen->width()
ScreenWidth == BitmapWidth

\* m_screen->height()
ScreenHeight == BitmapHeight

SpriteShiftSwapped(bg_ctrl) == IF And(bg_ctrl, 128) # 0 THEN 4 ELSE 4 - 1

SpriteShift(bg_ctrl) == IF And(bg_ctrl, 128) # 0 THEN 4 - 1 ELSE 4

Code16(e) == Or(Shl(e[4], 8), e[3])

HighCode(code, bg_ctrl) ==
    And(Shr(code, 4), 2032) + Shr(And(code, 32768), SpriteShift(bg_ctrl))

SpriteSizeAnyBit(code) ==
    CASE And(code, 128) # 0 -> 4
      [] And(code, 8) # 0   -> 2
      [] OTHER              -> 1

\* the switch on code & 0x88
SpriteSize(code) ==
    CASE And(code, 136) = 136 -> 4
      [] And(code, 136) = 8   -> 2
      [] OTHER                -> 1

LowCodeUnshifted(code) ==
    CASE And(code, 136) = 136 -> 0
      [] And(code, 136) = 8   -> Or(And(code, 32), And(code, 16))
      [] OTHER                -> And(Shr(code, 4), 15)

LowCode(code) ==
    CASE And(code, 136) = 136 -> 0
      [] And(code, 136) = 8   -> Or(Shr(And(code, 32), 2), Shr(And(code, 16), 3))
      [] OTHER                -> And(Shr(code, 4), 15)

LogicalNotIdentity(v) == v

LogicalNot(v) == IF v = 0 THEN 1 ELSE 0

FlipScreenNoSize(p, n) ==
    [x     |-> ScreenWidth - p.x,
     y     |-> ScreenHeight - p.y,
     flipx |-> LogicalNot(p.flipx),
     flipy |-> LogicalNot(p.flipy)]

\* the body of if (m_bg_ctrl & 1): p holds x, y, flipx and flipy
FlipScreen(p, n) ==
    [x     |-> ScreenWidth - p.x - n * 8,
     y     |-> ScreenHeight - p.y - n * 8,
     flipx |-> LogicalNot(p.flipx),
     flipy |-> LogicalNot(p.flipy)]

\* x, y, flipx and flipy as read from the entry, before the flip-screen test
SpriteRaw(e) ==
    LET code == Code16(e)
    IN  [x     |-> Or(Shl(e[2], 1), And(code, 1)),
         y     |-> e[1],
         flipx |-> And(code, 2),
         flipy |-> And(code, 4)]

\* e = the four bytes of the entry, in table order
SpriteDecode(e, bg_ctrl) ==
    LET code == Code16(e)
        n    == SpriteSize(code)
        raw  == SpriteRaw(e)
        p    == IF And(bg_ctrl, 1) # 0 THEN FlipScreen(raw, n) ELSE raw
    IN  [code16    |-> code,
         n         |-> n,
         low_code  |-> LowCode(code),
         high_code |-> HighCode(code, bg_ctrl),
         x         |-> p.x,
         y         |-> p.y,
         flipx     |-> p.flipx,
         flipy     |-> p.flipy]

\* for (dx = xstart; dx != xend; dx += xinc, code++)
RECURSIVE RowTiles(_, _, _, _, _)
RowTiles(dx, xend, xinc, dy, code) ==
    IF dx = xend THEN <<>>
    ELSE <<[dx |-> dx, dy |-> dy, code |-> code]>>
             \o RowTiles(dx + xinc, xend, xinc, dy, code + 1)

\* for (dy = ystart; dy != yend; dy += yinc) { row; if (n == 2) code += 2; }
RECURSIVE WalkRows(_, _, _, _, _, _, _, _)
WalkRows(dy, yend, yinc, xstart, xend, xinc, n, code) ==
    IF dy = yend THEN <<>>
    ELSE LET row == RowTiles(xstart, xend, xinc, dy, code)
         IN  row \o WalkRows(dy + yinc, yend, yinc, xstart, xend, xinc, n,
                             code + Len(row) + (IF n = 2 THEN 2 ELSE 0))

LoopBoundsNoReverse(flip, n) ==
    IF flip # 0 THEN [start |-> n - 1, end |-> -1, inc |-> 1]
    ELSE [start |-> 0, end |-> n, inc |-> 1]

\* start, end and increment of a tile loop over n tiles, by its flip flag
LoopBounds(flip, n) ==
    IF flip # 0 THEN [start |-> n - 1, end |-> -1, inc |-> -1]
    ELSE [start |-> 0, end |-> n, inc |-> 1]

TileWalkNoRowSkip(d) ==
    LET bx == LoopBounds(d.flipx, d.n)
        by == LoopBounds(d.flipy, d.n)
    IN  WalkRows(by.start, by.end, by.inc, bx.start, bx.end, bx.inc, 0,
                 d.low_code + d.high_code)

\* the tiles of one sprite, in the order the two loops visit them
TileWalk(d) ==
    LET bx == LoopBounds(d.flipx, d.n)
        by == LoopBounds(d.flipy, d.n)
    IN  WalkRows(by.start, by.end, by.inc, bx.start, bx.end, bx.inc, d.n,
                 d.low_code + d.high_code)

\* transparent pen of the first transpen call of a tile
TransPen == 255

WrapTransPenNibble == TransPen % 16

\* transparent pen of the second (y - 256) transpen call of a tile
WrapTransPen == 255

TileCallsWrapDown(d, t) ==
    << [code |-> t.code, color |-> 0, flipx |-> d.flipx, flipy |-> d.flipy,
        sx |-> t.dx * 8 + d.x, sy |-> t.dy * 8 + d.y, trans |-> TransPen],
       [code |-> t.code, color |-> 0, flipx |-> d.flipx, flipy |-> d.flipy,
        sx |-> t.dx * 8 + d.x, sy |-> t.dy * 8 + d.y + 256,
        trans |-> WrapTransPen] >>

TileCallsWrapAcross(d, t) ==
    << [code |-> t.code, color |-> 0, flipx |-> d.flipx, flipy |-> d.flipy,
        sx |-> t.dx * 8 + d.x, sy |-> t.dy * 8 + d.y, trans |-> TransPen],
       [code |-> t.code, color |-> 0, flipx |-> d.flipx, flipy |-> d.flipy,
        sx |-> t.dx * 8 + d.x - ScreenWidth, sy |-> t.dy * 8 + d.y,
        trans |-> WrapTransPen] >>

\* the two transpen calls made for tile t of the decoded sprite d
TileCalls(d, t) ==
    << [code |-> t.code, color |-> 0, flipx |-> d.flipx, flipy |-> d.flipy,
        sx |-> t.dx * 8 + d.x, sy |-> t.dy * 8 + d.y, trans |-> TransPen],
       [code |-> t.code, color |-> 0, flipx |-> d.flipx, flipy |-> d.flipy,
        sx |-> t.dx * 8 + d.x, sy |-> t.dy * 8 + d.y - 256,
        trans |-> WrapTransPen] >>

RECURSIVE CallsOf(_, _, _)
CallsOf(d, walk, k) ==
    IF k > Len(walk) THEN <<>>
    ELSE TileCalls(d, walk[k]) \o CallsOf(d, walk, k + 1)

\* every transpen call of one sprite entry, in program order
SpriteCalls(e, bg_ctrl) ==
    LET d == SpriteDecode(e, bg_ctrl)
    IN  CallsOf(d, TileWalk(d), 1)

\* the pixels a sequence of transpen calls leaves written (a later call wins)
RECURSIVE CallWrites(_, _, _, _)
CallWrites(gfx, clip, calls, k) ==
    IF k = 0 THEN <<>>
    ELSE transpen(gfx, clip, calls[k]) @@ CallWrites(gfx, clip, calls, k - 1)

(***************************************************************************)
(* State.  Emulated hardware state and regions: m_bg_ctrl, m_bgram,        *)
(* m_spriteram, gfx1 (sprite rom image), gfx2 (star rom image).  Arguments *)
(* of screen_update_skyfox: bitmap, cliprect.  Position in the call: pc,   *)
(* offs (the loop variable of draw_sprites), frame.  History kept for the  *)
(* properties: steps (the calls made this frame), starWr and sprWr (pixels *)
(* written by each pass this frame and the value left there), blits (the   *)
(* transpen calls of this frame), reads (the sprite-RAM indices read this  *)
(* frame), ret (the value returned) and prev (the bitmap as the previous   *)
(* frame left it).  cand and sprite hold the result of evaluating one star *)
(* candidate or one sprite entry on its own.                               *)
(***************************************************************************)
VARIABLES m_bg_ctrl, m_bgram, m_spriteram, gfx1, gfx2, bitmap, cliprect,
          pc, offs, frame, steps, starWr, sprWr, blits, reads, ret, prev,
          cand, sprite

\* the local variables of draw_sprites while one entry is being drawn (the
\* decoded entry d and dy, dx, code), or NoLoop outside the loop body
VARIABLES loop

\* Pooyan: m_irq_enable (the member of pooyan_state), nmi (the state of the
\* main CPU's INPUT_LINE_NMI as last set by a handler) and irq_log (the
\* handler calls made so far, each with its state argument)
VARIABLES m_irq_enable, nmi, irq_log

vars == <<m_bg_ctrl, m_bgram, m_spriteram, gfx1, gfx2, bitmap, cliprect,
          pc, offs, frame, steps, starWr, sprWr, blits, reads, ret, prev,
          cand, sprite, loop, m_irq_enable, nmi, irq_log>>

skyfox == <<m_bg_ctrl, m_bgram, m_spriteram, gfx1, gfx2, bitmap, cliprect,
            pc, offs, frame, steps, starWr, sprWr, blits, reads, ret, prev,
            cand, sprite, loop>>

pooyan == <<m_irq_enable, nmi, irq_log>>

snapshot == <<m_bg_ctrl, m_bgram, m_spriteram, gfx1, gfx2>>

history == <<steps, starWr, sprWr, blits, reads, ret, prev>>

NoCand == [i |-> -1]

NoSprite == [d |-> [n |-> 0]]

NoLoop == [d |-> [n |-> 0]]

BgRam(ram) == [a \in 0..255 |-> BgRamByte(ram, a)]

(***************************************************************************)
(* Bounds and input samples.                                               *)
(***************************************************************************)
\* number of entries of the sprite tables explored
MaxSprites == 1

\* number of successive frame updates explored
MaxFrames == 2

\* the 32x32 sprite of scenario B
ScenarioBEntry == <<16, 64, 136, 0>>

\* a 16x16 x-flipped sprite of the banked range at the bottom screen edge
EdgeEntry == <<248, 44, 26, 128>>

SpriteSamples == {ScenarioBEntry, EdgeEntry}

RECURSIVE Tables(_)
Tables(k) ==
    IF k = 0 THEN {<<>>}
    ELSE LET shorter == Tables(k - 1)
         IN  shorter \cup {t \o e : t \in {u \in shorter : Len(u) = 4 * (k - 1)},
                                    e \in SpriteSamples}

\* a machine image: the sprite rom, the star rom and the contents of the
\* background position RAM
MachineImages ==
    { [gfx1 |-> 1, gfx2 |-> 0, bgram |-> 0],
      [gfx1 |-> 2, gfx2 |-> 1, bgram |-> 1] }

BgCtrlSamples == {0, 155}

PartRect == [min_x |-> 80, max_x |-> 143, min_y |-> 4, max_y |-> 35]

ClipRects == {FullRect, PartRect}

\* initial bitmap contents explored with a clip rectangle: a fill of the
\* whole bitmap leaves nothing of them, so one image is explored there
InitImages(clip) == IF clip = FullRect THEN {1} ELSE {0, 1}

\* bytes an out-of-range read of the sprite table may return
OobBytes == {1, 136}

(***************************************************************************)
(* screen_update_skyfox as a sequence of steps.                            *)
(***************************************************************************)
StepAfterSpritesFirst(step) ==
    CASE step = "entry"           -> "fill"
      [] step = "fill"            -> "draw_sprites"
      [] step = "draw_sprites"    -> "draw_background"
      [] step = "draw_background" -> "return"
      [] OTHER                    -> "done"

\* the statement order of screen_update_skyfox
StepAfter(step) ==
    CASE step = "entry"           -> "fill"
      [] step = "fill"            -> "draw_background"
      [] step = "draw_background" -> "draw_sprites"
      [] step = "draw_sprites"    -> "return"
      [] OTHER                    -> "done"

\* no Pooyan handler has run
IrqIdle ==
    /\ m_irq_enable = 0
    /\ nmi = "CLEAR_LINE"
    /\ irq_log = <<>>

Idle ==
    /\ cand = NoCand
    /\ sprite = NoSprite
    /\ loop = NoLoop
    /\ IrqIdle

InitCall ==
    /\ pc = StepAfter("entry")
    /\ offs = 0
    /\ frame = 1
    /\ steps = <<>>
    /\ starWr = <<>>
    /\ sprWr = <<>>
    /\ blits = <<>>
    /\ reads = {}
    /\ ret = -1
    /\ prev = bitmap

Init ==
    /\ m_bg_ctrl \in BgCtrlSamples
    /\ m_spriteram \in Tables(MaxSprites)
    /\ \E r \in MachineImages :
           gfx1 = r.gfx1 /\ gfx2 = r.gfx2 /\ m_bgram = BgRam(r.bgram)
    /\ cliprect \in ClipRects
    /\ bitmap \in {NewBitmap(img) : img \in InitImages(cliprect)}
    /\ InitCall
    /\ Idle

\* bitmap.fill(0xff, cliprect)
Fill ==
    /\ pc = "fill"
    /\ bitmap' = BitmapFill(bitmap, 255, cliprect)
    /\ steps' = Append(steps, pc)
    /\ pc' = StepAfter(pc)
    /\ UNCHANGED <<snapshot, cliprect, offs, frame, starWr, sprWr, blits,
                   reads, ret, prev, cand, sprite>>
    /\ UNCHANGED <<loop, pooyan>>

\* draw_background(bitmap, cliprect)
DrawBackground ==
    /\ pc = "draw_background"
    /\ LET w == draw_background(gfx2, m_bgram, m_bg_ctrl, cliprect)
       IN  /\ bitmap' = BitmapPlot(bitmap, w)
           /\ starWr' = w
    /\ steps' = Append(steps, pc)
    /\ pc' = StepAfter(pc)
    /\ UNCHANGED <<snapshot, cliprect, offs, frame, sprWr, blits, reads, ret,
                   prev, cand, sprite>>
    /\ UNCHANGED <<loop, pooyan>>

\* the bytes m_spriteram[offs + 0 .. offs + 3]; g supplies what a read past
\* the end of the table returns
EntryBytes(ram, o, g) ==
    [k \in 1..4 |-> IF o + k - 1 < Len(ram) THEN ram[o + k] ELSE g[k]]

Garbage(ram, o) ==
    {g \in [1..4 -> OobBytes \cup {0}] :
        \A k \in 1..4 : IF o + k - 1 < Len(ram) THEN g[k] = 0
                                                ELSE g[k] \in OobBytes}

NextOffsByTwo(o) == o + 2

\* offs += 4
NextOffs(o) == o + 4

\* draw_sprites(bitmap, cliprect): one iteration of the loop over offs
DrawSprite ==
    /\ pc = "draw_sprites"
    /\ offs < Len(m_spriteram)
    /\ \E g \in Garbage(m_spriteram, offs) :
         LET calls == SpriteCalls(EntryBytes(m_spriteram, offs, g), m_bg_ctrl)
             w     == CallWrites(gfx1, cliprect, calls, Len(calls))
         IN  /\ bitmap' = BitmapPlot(bitmap, w)
             /\ sprWr' = w @@ sprWr
             /\ blits' = blits \o calls
    /\ reads' = reads \cup (offs .. offs + 3)
    /\ offs' = NextOffs(offs)
    /\ UNCHANGED <<snapshot, cliprect, pc, frame, steps, starWr, ret, prev,
                   cand, sprite>>
    /\ UNCHANGED <<loop, pooyan>>

\* draw_sprites: the loop condition fails
DrawSpritesEnd ==
    /\ pc = "draw_sprites"
    /\ offs >= Len(m_spriteram)
    /\ steps' = Append(steps, pc)
    /\ pc' = StepAfter(pc)
    /\ offs' = 0
    /\ UNCHANGED <<snapshot, bitmap, cliprect, frame, starWr, sprWr, blits,
                   reads, ret, prev, cand, sprite>>
    /\ UNCHANGED <<loop, pooyan>>

\* return 0
Return ==
    /\ pc = "return"
    /\ ret' = 0
    /\ pc' = StepAfter(pc)
    /\ UNCHANGED <<snapshot, bitmap, cliprect, offs, frame, steps, starWr,
                   sprWr, blits, reads, prev, cand, sprite>>
    /\ UNCHANGED <<loop, pooyan>>

\* the screen device calls screen_update_skyfox again for the next frame
NextFrame ==
    /\ pc = "done"
    /\ frame < MaxFrames
    /\ frame' = frame + 1
    /\ prev' = bitmap
    /\ pc' = StepAfter("entry")
    /\ offs' = 0
    /\ steps' = <<>>
    /\ starWr' = <<>>
    /\ sprWr' = <<>>
    /\ blits' = <<>>
    /\ reads' = {}
    /\ ret' = -1
    /\ UNCHANGED <<snapshot, bitmap, cliprect, cand, sprite>>
    /\ UNCHANGED <<loop, pooyan>>

Next ==
    \/ Fill
    \/ DrawBackground
    \/ DrawSprite
    \/ DrawSpritesEnd
    \/ Return
    \/ NextFrame

Spec == Init /\ [][Next]_vars

(***************************************************************************)
(* The same frame update entered with a sprite table of any length, also   *)
(* one that is not a multiple of 4: the loop of draw_sprites then reads    *)
(* past the end of the table, and such a read may return any byte.         *)
(***************************************************************************)
Prefixes(T) == UNION {{SubSeq(t, 1, k) : k \in 1..Len(t)} : t \in T}

InitStruct ==
    /\ m_bg_ctrl = 0
    /\ m_spriteram \in {t \in Prefixes(Tables(MaxSprites)) : Len(t) % 4 # 0}
    /\ gfx1 = 1 /\ gfx2 = 0 /\ m_bgram = BgRam(0)
    /\ bitmap = NewBitmap(1)
    /\ cliprect \in ClipRects
    /\ InitCall
    /\ Idle

SpecStruct == InitStruct /\ [][Next]_vars

(***************************************************************************)
(* draw_sprites statement by statement, on sprite tables of one entry more *)
(* than Spec explores: the loop over offs, and inside it the loops over dy *)
(* and dx, which stop when the variable equals its end value.  The         *)
(* function is straight-line code run to its return, so a step that can be *)
(* taken is eventually taken.                                              *)
(***************************************************************************)
\* largest |dx| and |dy| explored
MaxWalk == 8

LoopCtrlSamples == {0, 1}

\* sprite rom images explored with a table: the blank image (every pixel
\* transparent) with every table, the solid image with the tables of at
\* most one entry
LoopRoms(table) == IF Len(table) <= 4 THEN {0, 1} ELSE {0}

InitLoop ==
    /\ m_bg_ctrl \in LoopCtrlSamples
    /\ m_spriteram \in Tables(MaxSprites + 1)
    /\ gfx1 \in LoopRoms(m_spriteram)
    /\ gfx2 = 0 /\ m_bgram = BgRam(0)
    /\ bitmap = NewBitmap(1)
    /\ cliprect = PartRect
    /\ pc = "draw_sprites"
    /\ offs = 0
    /\ frame = 1
    /\ steps = <<>>
    /\ starWr = <<>>
    /\ sprWr = <<>>
    /\ blits = <<>>
    /\ reads = {}
    /\ ret = -1
    /\ prev = bitmap
    /\ Idle

\* offs < m_spriteram.bytes(): read and decode the entry, set up the loops
EntryBegin ==
    /\ pc = "draw_sprites"
    /\ loop = NoLoop
    /\ offs < Len(m_spriteram)
    /\ \E g \in Garbage(m_spriteram, offs) :
         LET d == SpriteDecode(EntryBytes(m_spriteram, offs, g), m_bg_ctrl)
         IN  loop' = [d    |-> d,
                      dy   |-> LoopBounds(d.flipy, d.n).start,
                      dx   |-> LoopBounds(d.flipx, d.n).start,
                      code |-> d.low_code + d.high_code]
    /\ reads' = reads \cup (offs .. offs + 3)
    /\ UNCHANGED <<snapshot, bitmap, cliprect, pc, offs, frame, steps, starWr,
                   sprWr, blits, ret, prev, cand, sprite, pooyan>>

\* dx != xend: the two transpen calls of one tile, then dx += xinc, code++
TileStep ==
    /\ loop # NoLoop
    /\ loop.dy # LoopBounds(loop.d.flipy, loop.d.n).end
    /\ loop.dx # LoopBounds(loop.d.flipx, loop.d.n).end
    /\ loop.dx \in (-MaxWalk)..MaxWalk
    /\ LET calls == TileCalls(loop.d, [dx |-> loop.dx, dy |-> loop.dy,
                                       code |-> loop.code])
           w     == CallWrites(gfx1, cliprect, calls, Len(calls))
       IN  /\ bitmap' = BitmapPlot(bitmap, w)
           /\ sprWr' = w @@ sprWr
           /\ blits' = blits \o calls
    /\ loop' = [loop EXCEPT !.dx = @ + LoopBounds(loop.d.flipx, loop.d.n).inc,
                            !.code = @ + 1]
    /\ UNCHANGED <<snapshot, cliprect, pc, offs, frame, steps, starWr, reads,
                   ret, prev, cand, sprite, pooyan>>

\* dx == xend: if (n == 2) code += 2; dy += yinc; the next row starts at
\* dx = xstart
RowEnd ==
    /\ loop # NoLoop
    /\ loop.dy # LoopBounds(loop.d.flipy, loop.d.n).end
    /\ loop.dx = LoopBounds(loop.d.flipx, loop.d.n).end
    /\ loop.dy \in (-MaxWalk)..MaxWalk
    /\ LET dy == loop.dy + LoopBounds(loop.d.flipy, loop.d.n).inc
       IN  loop' = [loop EXCEPT
                      !.code = @ + (IF loop.d.n = 2 THEN 2 ELSE 0),
                      !.dy   = dy,
                      !.dx   = IF dy # LoopBounds(loop.d.flipy, loop.d.n).end
                               THEN LoopBounds(loop.d.flipx, loop.d.n).start
                               ELSE @]
    /\ UNCHANGED <<snapshot, bitmap, cliprect, pc, offs, frame, steps, starWr,
                   sprWr, blits, reads, ret, prev, cand, sprite, pooyan>>

\* dy == yend: the body of the loop over offs is done; offs += 4
EntryEnd ==
    /\ loop # NoLoop
    /\ loop.dy = LoopBounds(loop.d.flipy, loop.d.n).end
    /\ offs' = NextOffs(offs)
    /\ loop' = NoLoop
    /\ UNCHANGED <<snapshot, bitmap, cliprect, pc, frame, steps, starWr,
                   sprWr, blits, reads, ret, prev, cand, sprite, pooyan>>

NextLoop ==
    \/ EntryBegin
    \/ TileStep
    \/ RowEnd
    \/ EntryEnd
    \/ DrawSpritesEnd

SpecLoop == InitLoop /\ [][NextLoop]_vars /\ WF_vars(NextLoop)

(***************************************************************************)
(* One star candidate evaluated on its own, for every candidate index and  *)
(* every value of the control register.                                    *)
(***************************************************************************)
\* the star rom and position RAM images explored: a varied image under
\* every value of the control register, and the all-0xFF image (the largest
\* x a candidate can compute) under each of the four patterns
StarImages ==
    { [gfx2 |-> 1, bgram |-> 1, ctrl |-> 0..255],
      [gfx2 |-> 3, bgram |-> 3, ctrl |-> {0, 2, 4, 6}] }

InitStar ==
    /\ \E img \in StarImages :
           /\ m_bg_ctrl \in img.ctrl
           /\ m_bgram = BgRam(img.bgram)
           /\ gfx2 = img.gfx2
    /\ m_spriteram = <<>>
    /\ gfx1 = 2
    /\ bitmap = NewBitmap(0)
    /\ cliprect = FullRect
    /\ InitCall
    /\ Idle

StarStep ==
    /\ cand = NoCand
    /\ \E i \in 0..(StarCount - 1) :
           cand' = StarCandidate(gfx2, m_bgram, m_bg_ctrl, i)
    /\ UNCHANGED <<snapshot, bitmap, cliprect, pc, offs, frame, history,
                   sprite>>
    /\ UNCHANGED <<loop, pooyan>>

NextStar == StarStep

SpecStar == InitStar /\ [][NextStar]_vars

(***************************************************************************)
(* One sprite entry decoded and walked on its own, for every 16-bit code.  *)
(***************************************************************************)
SpriteCtrlSamples == {0, 1, 128, 129}

SpritePositions == {<<32, 48>>}

\* the two corners of the position range, explored for the codes 0..255
\* (every size, flip and low-bit combination)
EdgePositions == {<<0, 0>>, <<255, 255>>}

\* everything draw_sprites derives from one entry
SpriteEntry(e, bg_ctrl) ==
    LET d    == SpriteDecode(e, bg_ctrl)
        walk == TileWalk(d)
    IN  [d     |-> d,
         walk  |-> walk,
         calls |-> CallsOf(d, walk, 1)]

InitSprite ==
    /\ m_bg_ctrl \in SpriteCtrlSamples
    /\ m_bgram = BgRam(0)
    /\ \E code \in 0..65535 :
         \E yx \in SpritePositions
                      \cup (IF code < 256 THEN EdgePositions ELSE {}) :
           m_spriteram = <<yx[1], yx[2], code % 256, code \div 256>>
    /\ gfx1 = 2 /\ gfx2 = 1
    /\ bitmap = NewBitmap(0)
    /\ cliprect = FullRect
    /\ InitCall
    /\ Idle

SpriteStep ==
    /\ sprite = NoSprite
    /\ Len(m_spriteram) >= 4
    /\ sprite' = SpriteEntry(SubSeq(m_spriteram, 1, 4), m_bg_ctrl)
    /\ UNCHANGED <<snapshot, bitmap, cliprect, pc, offs, frame, history, cand>>
    /\ UNCHANGED <<loop, pooyan>>

NextSprite == SpriteStep

SpecSprite == InitSprite /\ [][NextSprite]_vars

(***************************************************************************)
(* Pooyan: the vertical-blank interrupt.  The screen calls vblank_irq with *)
(* 1 when vertical blanking starts and 0 when it ends; output Q0 of the    *)
(* main latch calls irq_enable_w with the bit written.  A handler is a     *)
(* function of the state st = [m_irq_enable, nmi] and of its argument.     *)
(***************************************************************************)
\* number of handler calls explored
MaxCalls == 4

LineStates == {0, 1}

vblank_irq_ungated(st, state) ==
    IF state # 0
    THEN [st EXCEPT !.nmi = "ASSERT_LINE"]
    ELSE st

\* if (state && m_irq_enable) set_input_line(INPUT_LINE_NMI, ASSERT_LINE)
vblank_irq(st, state) ==
    IF state # 0 /\ st.m_irq_enable # 0
    THEN [st EXCEPT !.nmi = "ASSERT_LINE"]
    ELSE st

irq_enable_w_always_clears(st, state) ==
    [m_irq_enable |-> state, nmi |-> "CLEAR_LINE"]

\* m_irq_enable = state;
\* if (!m_irq_enable) set_input_line(INPUT_LINE_NMI, CLEAR_LINE)
irq_enable_w(st, state) ==
    LET enabled == [st EXCEPT !.m_irq_enable = state]
    IN  IF enabled.m_irq_enable = 0
        THEN [enabled EXCEPT !.nmi = "CLEAR_LINE"]
        ELSE enabled

IrqState == [m_irq_enable |-> m_irq_enable, nmi |-> nmi]

\* the value of m_irq_enable before the first irq_enable_w is not set by the
\* code of the handlers; the NMI line starts clear
InitPooyan ==
    /\ m_irq_enable \in LineStates
    /\ nmi = "CLEAR_LINE"
    /\ irq_log = <<>>
    /\ m_bg_ctrl = 0
    /\ m_bgram = BgRam(0)
    /\ m_spriteram = <<>>
    /\ gfx1 = 1 /\ gfx2 = 0
    /\ bitmap = NewBitmap(0)
    /\ cliprect = FullRect
    /\ InitCall
    /\ cand = NoCand
    /\ sprite = NoSprite
    /\ loop = NoLoop

VblankIrq ==
    /\ Len(irq_log) < MaxCalls
    /\ \E state \in LineStates :
         LET st == vblank_irq(IrqState, state)
         IN  /\ m_irq_enable' = st.m_irq_enable
             /\ nmi' = st.nmi
             /\ irq_log' = Append(irq_log, [handler |-> "vblank_irq",
                                            state |-> state])
    /\ UNCHANGED skyfox

IrqEnableW ==
    /\ Len(irq_log) < MaxCalls
    /\ \E state \in LineStates :
         LET st == irq_enable_w(IrqState, state)
         IN  /\ m_irq_enable' = st.m_irq_enable
             /\ nmi' = st.nmi
             /\ irq_log' = Append(irq_log, [handler |-> "irq_enable_w",
                                            state |-> state])
    /\ UNCHANGED skyfox

NextPooyan ==
    \/ VblankIrq
    \/ IrqEnableW

SpecPooyan == InitPooyan /\ [][NextPooyan]_vars

(***************************************************************************)
(* Properties of one star candidate (SpecStar).                            *)
(***************************************************************************)
\* bit k of v, and the field of v selected by a shift and a width
BitOf(v, k) == (v \div (2 ^ k)) % 2

\* C4 as stated: every read of the star rom, at offs and at offs + 1, is
\* inside an 8 KiB bg_rom
C4_ReadsInside8K ==
    cand # NoCand => cand.offs >= 0 /\ cand.offs + 1 < 8192

\* C4 amended: offs = ((i*2) mod 0x2000) + pattern*0x2000 with
\* pattern = (bg_ctrl >> 1) & 3, and both offs and offs + 1 are inside the
\* four 0x2000-byte chunks of the star rom; they are inside the first 8 KiB
\* exactly when pattern is 0
C4_ReadsInsideRom ==
    cand # NoCand =>
        LET pattern == (m_bg_ctrl \div 2) % 4
        IN  /\ cand.offs = ((cand.i * 2) % 8192) + pattern * 8192
            /\ cand.offs >= 0
            /\ cand.offs + 1 < BgRomSize
            /\ (cand.offs + 1 < 8192) <=> (pattern = 0)

C4_Witness ==
    /\ cand # NoCand
    /\ cand.i = StarCount - 1
    /\ (m_bg_ctrl \div 2) % 4 = 3
    /\ cand.offs + 1 = BgRomSize - 1

\* C10: a star candidate writes nothing exactly when bg_ctrl bit 3 is set
\* and ((bg_ctrl >> 4) & 3) equals (pen & 3); in every other case it sets
\* the pixel at row y mod 256, column x mod 512 to pen
C10_BlinkGate ==
    cand # NoCand =>
        LET suppressed == /\ BitOf(m_bg_ctrl, 3) = 1
                          /\ (m_bg_ctrl \div 16) % 4 = cand.pen % 4
        IN  IF suppressed THEN cand.wr = <<>>
            ELSE cand.wr = (PixAddr(cand.y % 256, cand.x % 512) :> cand.pen)

C10_Witness ==
    /\ cand # NoCand
    /\ BitOf(m_bg_ctrl, 3) = 1
    /\ (m_bg_ctrl \div 16) % 4 # cand.pen % 4
    /\ cand.y = 256
    /\ cand.x >= 512
    /\ DOMAIN cand.wr # {}

\* C17: for every candidate x = rom[offs+1]*2 + pos + 0x5B and
\* y = (i >> 4) + 1 are non-negative, so the written row y mod 256 is in
\* [0, 256) and the written column x mod 512 is in [0, 512); the candidates
\* with i >= 0xFF0 land on row 0
C17_StarInBitmap ==
    cand # NoCand =>
        LET ramoffset == 224 + (cand.i % 16) * 2
            pos       == m_bgram[ramoffset + 1] * 2
                             + BitOf(m_bgram[ramoffset], 7)
        IN  /\ cand.x = Gfx2Byte(gfx2, cand.offs + 1) * 2 + pos + 91
            /\ cand.y = (cand.i \div 16) + 1
            /\ cand.x >= 0 /\ cand.x <= 255 * 2 + 255 * 2 + 1 + 91
            /\ cand.y >= 1 /\ cand.y <= 256
            /\ \A a \in DOMAIN cand.wr :
                   /\ a >= 0 /\ a < BitmapWidth * BitmapHeight
                   /\ AddrY(a) = IF cand.y = 256 THEN 0 ELSE cand.y
                   /\ AddrX(a) = cand.x - 512 * (cand.x \div 512)
                   /\ AddrY(a) \in 0..255
                   /\ AddrX(a) \in 0..511
            /\ cand.i >= 4080 => /\ cand.y % 256 = 0
                                 /\ \A a \in DOMAIN cand.wr : AddrY(a) = 0

C17_Witness ==
    /\ cand # NoCand
    /\ cand.i >= 4080
    /\ cand.x = 1112
    /\ \E a \in DOMAIN cand.wr : AddrY(a) = 0 /\ AddrX(a) = 88

(***************************************************************************)
(* Properties of one sprite entry (SpecSprite).                            *)
(***************************************************************************)
\* C6: n and low_code are selected by code16 & 0x88 alone: 0x88 gives n = 4
\* and low_code = 0; 0x08 gives n = 2 and low_code =
\* ((code16 & 0x20) >> 2) | ((code16 & 0x10) >> 3); 0x00 and 0x80 give n = 1
\* and low_code = (code16 >> 4) & 0xF; exactly n*n distinct tile positions
\* are drawn
C6_SizeExhaustive ==
    sprite # NoSprite =>
        LET code == m_spriteram[4] * 256 + m_spriteram[3]
            sel  == BitOf(code, 7) * 128 + BitOf(code, 3) * 8
            d    == sprite.d
            at   == {<<sprite.walk[k].dx, sprite.walk[k].dy>> :
                        k \in 1..Len(sprite.walk)}
        IN  /\ sel = 136 => d.n = 4 /\ d.low_code = 0
            /\ sel = 8 => /\ d.n = 2
                          /\ d.low_code = BitOf(code, 5) * 8 + BitOf(code, 4) * 2
            /\ sel \in {0, 128} => d.n = 1 /\ d.low_code = (code \div 16) % 16
            /\ Len(sprite.walk) = d.n * d.n
            /\ at = (0..(d.n - 1)) \X (0..(d.n - 1))
            /\ Len(sprite.calls) = 2 * d.n * d.n

C6_Witness ==
    /\ sprite # NoSprite
    /\ BitOf(m_spriteram[3], 7) = 1 /\ BitOf(m_spriteram[3], 3) = 0
    /\ sprite.d.n = 1
    /\ sprite.d.low_code = 15
    /\ Len(sprite.walk) = 1

\* the 16-bit code word of the entry under evaluation
EntryCode == m_spriteram[4] * 256 + m_spriteram[3]

\* C11: the walk of one sprite starts at code = low_code + high_code, visits
\* the rows dy = 0..n-1 (n-1..0 when flip_y) and in each row the columns
\* dx = 0..n-1 (n-1..0 when flip_x), and code grows by 1 after each tile and,
\* when n = 2, by 2 more after each row: the codes are c, c+1, c+4, c+5 for
\* n = 2 and c..c+15 in walk order for n = 4
C11_TileWalk ==
    sprite # NoSprite =>
        LET d == sprite.d
            n == d.n
            c == d.low_code + d.high_code
            codes == [k \in 1..Len(sprite.walk) |-> sprite.walk[k].code]
        IN  /\ Len(sprite.walk) = n * n
            /\ \A k \in 1..(n * n) :
                 LET row == (k - 1) \div n
                     col == (k - 1) % n
                 IN  /\ sprite.walk[k].dy = IF d.flipy # 0 THEN n - 1 - row ELSE row
                     /\ sprite.walk[k].dx = IF d.flipx # 0 THEN n - 1 - col ELSE col
                     /\ sprite.walk[k].code =
                            c + (k - 1) + (IF n = 2 THEN 2 * row ELSE 0)
                     /\ sprite.calls[2 * k - 1].code = sprite.walk[k].code
            /\ n = 1 => codes = <<c>>
            /\ n = 2 => codes = <<c, c + 1, c + 4, c + 5>>
            /\ n = 4 => codes = [k \in 1..16 |-> c + k - 1]

C11_Witness ==
    /\ sprite # NoSprite
    /\ sprite.d.n = 2
    /\ sprite.d.flipy # 0 /\ sprite.d.flipx = 0
    /\ sprite.d.low_code = 10
    /\ sprite.walk[1].dy = 1 /\ sprite.walk[1].dx = 0
    /\ sprite.walk[3].code = sprite.d.high_code + 14
    /\ sprite.walk[3].dy = 0

\* C12: high_code = ((code16 >> 4) & 0x7F0) + ((code16 & 0x8000) >> shift)
\* with shift = 3 when bg_ctrl bit 7 is set and 4 otherwise, so the codes
\* with bit 15 set start at 0x800 (bit 7 clear) or 0x1000 (bit 7 set), and
\* every tile code passed to the blitter is below 0x1800
C12_BankSwitch ==
    sprite # NoSprite =>
        LET shift == IF BitOf(m_bg_ctrl, 7) = 1 THEN 3 ELSE 4
            base  == IF BitOf(m_bg_ctrl, 7) = 1 THEN 4096 ELSE 2048
            row   == ((EntryCode \div 256) % 128) * 16
        IN  /\ sprite.d.high_code =
                   row + (BitOf(EntryCode, 15) * 32768) \div (2 ^ shift)
            /\ BitOf(EntryCode, 15) = 1 => sprite.d.high_code = base + row
            /\ BitOf(EntryCode, 15) = 0 => sprite.d.high_code = row
            /\ \A k \in 1..Len(sprite.calls) :
                   /\ sprite.calls[k].code >= 0
                   /\ sprite.calls[k].code < 6144
                   /\ sprite.calls[k].code < GfxElements

C12_Witness ==
    /\ sprite # NoSprite
    /\ BitOf(m_bg_ctrl, 7) = 1
    /\ BitOf(EntryCode, 15) = 1
    /\ sprite.d.high_code = 6128
    /\ \E k \in 1..Len(sprite.calls) : sprite.calls[k].code = 6143

\* C13: with bg_ctrl bit 0 set a sprite is drawn with x replaced by
\* width - x - n*8, y by height - y - n*8 and both flip flags inverted,
\* before the walk direction is chosen and before blitting; with bit 0 clear
\* x, y and the flags are used as read.  Scenario C ({0x20, 0x30, 0x00,
\* 0x50}, bg_ctrl 1) is an 8x8 sprite at (width - 0x60 - 8,
\* height - 0x20 - 8) with both flips on
C13_FlipScreen ==
    sprite # NoSprite =>
        LET d   == sprite.d
            n   == d.n
            x0  == m_spriteram[2] * 2 + (EntryCode % 2)
            y0  == m_spriteram[1]
            fx0 == BitOf(EntryCode, 1) = 1
            fy0 == BitOf(EntryCode, 2) = 1
            on  == m_bg_ctrl % 2 = 1
        IN  /\ d.x = IF on THEN ScreenWidth - x0 - n * 8 ELSE x0
            /\ d.y = IF on THEN ScreenHeight - y0 - n * 8 ELSE y0
            /\ (d.flipx # 0) = IF on THEN ~fx0 ELSE fx0
            /\ (d.flipy # 0) = IF on THEN ~fy0 ELSE fy0
            /\ sprite.walk[1].dx = IF d.flipx # 0 THEN n - 1 ELSE 0
            /\ sprite.walk[1].dy = IF d.flipy # 0 THEN n - 1 ELSE 0
            /\ \A k \in 1..Len(sprite.walk) :
                   LET a == sprite.calls[2 * k - 1]
                   IN  /\ a.sx = sprite.walk[k].dx * 8 + d.x
                       /\ a.sy = sprite.walk[k].dy * 8 + d.y
                       /\ (a.flipx # 0) = (d.flipx # 0)
                       /\ (a.flipy # 0) = (d.flipy # 0)
            /\ (m_spriteram = <<32, 48, 0, 80>> /\ m_bg_ctrl = 1) =>
                   /\ n = 1
                   /\ sprite.calls[1].sx = ScreenWidth - 96 - 8
                   /\ sprite.calls[1].sy = ScreenHeight - 32 - 8
                   /\ sprite.calls[1].flipx # 0
                   /\ sprite.calls[1].flipy # 0

C13_Witness ==
    /\ sprite # NoSprite
    /\ m_spriteram = <<32, 48, 0, 80>>
    /\ m_bg_ctrl = 1
    /\ Len(sprite.calls) = 2
    /\ sprite.calls[1].sx = 408
    /\ sprite.calls[1].sy = 216
    /\ sprite.calls[1].flipx # 0 /\ sprite.calls[1].flipy # 0

\* C14: every tile blit at (dx*8 + x, dy*8 + y) is immediately followed by a
\* second blit of the same code with the same flip flags at
\* (dx*8 + x, dy*8 + y - 256), and these are the only blits: none is shifted
\* horizontally and none is at y + 256
C14_VerticalWrap ==
    sprite # NoSprite =>
        LET d == sprite.d
        IN  /\ Len(sprite.calls) = 2 * Len(sprite.walk)
            /\ \A k \in 1..Len(sprite.walk) :
                   LET t == sprite.walk[k]
                       a == sprite.calls[2 * k - 1]
                       b == sprite.calls[2 * k]
                   IN  /\ a.sx = t.dx * 8 + d.x
                       /\ a.sy = t.dy * 8 + d.y
                       /\ a.code = t.code
                       /\ b.sx = a.sx
                       /\ b.sy = a.sy - 256
                       /\ b.code = a.code
                       /\ b.flipx = a.flipx /\ b.flipy = a.flipy
                       /\ b.color = a.color /\ b.trans = a.trans

C14_Witness ==
    /\ sprite # NoSprite
    /\ m_bg_ctrl = 0
    /\ m_spriteram[1] = 255
    /\ sprite.d.n = 4
    /\ Len(sprite.calls) = 32
    /\ sprite.calls[1].sy = 255
    /\ sprite.calls[2].sy = -1
    /\ sprite.calls[2].sx = sprite.calls[1].sx

\* C18: high_code is a multiple of 16 and every code used during the walk
\* of a sprite, for n = 1, 2 and 4, satisfies
\* high_code <= code <= high_code + 15
C18_CodeBlock ==
    sprite # NoSprite =>
        /\ sprite.d.n \in {1, 2, 4}
        /\ sprite.d.high_code % 16 = 0
        /\ \A k \in 1..Len(sprite.walk) :
               /\ sprite.walk[k].code >= sprite.d.high_code
               /\ sprite.walk[k].code <= sprite.d.high_code + 15
        /\ \A k \in 1..Len(sprite.calls) :
               sprite.calls[k].code \div 16 = sprite.d.high_code \div 16

C18_Witness ==
    /\ sprite # NoSprite
    /\ sprite.d.n = 2
    /\ sprite.d.low_code = 10
    /\ sprite.d.high_code > 0
    /\ sprite.walk[4].code = sprite.d.high_code + 15

\* bg_ctrl with its flip-screen bit toggled
ToggleFlipScreen(bg_ctrl) == IF bg_ctrl % 2 = 1 THEN bg_ctrl - 1 ELSE bg_ctrl + 1

\* C20: applying (x, y, flipx, flipy) -> (width - x - n*8, height - y - n*8,
\* not flipx, not flipy) twice gives back x, y and the truth values of both
\* flags, and a sprite drawn with flip-screen on walks its tiles in the
\* reverse dx and dy directions of the same sprite with flip-screen off
C20_FlipInvolution ==
    sprite # NoSprite =>
        LET n     == sprite.d.n
            raw   == [x     |-> m_spriteram[2] * 2 + (EntryCode % 2),
                      y     |-> m_spriteram[1],
                      flipx |-> BitOf(EntryCode, 1) * 2,
                      flipy |-> BitOf(EntryCode, 2) * 4]
            twice == FlipScreen(FlipScreen(raw, n), n)
            od    == SpriteDecode(m_spriteram, ToggleFlipScreen(m_bg_ctrl))
            other == TileWalk(od) \o <<>>
        IN  /\ twice.x = raw.x
            /\ twice.y = raw.y
            /\ (twice.flipx # 0) = (raw.flipx # 0)
            /\ (twice.flipy # 0) = (raw.flipy # 0)
            /\ od.n = n
            /\ (od.flipx # 0) # (sprite.d.flipx # 0)
            /\ (od.flipy # 0) # (sprite.d.flipy # 0)
            /\ Len(other) = Len(sprite.walk)
            /\ \A k \in 1..Len(sprite.walk) :
                   /\ other[k].dx = n - 1 - sprite.walk[k].dx
                   /\ other[k].dy = n - 1 - sprite.walk[k].dy
                   /\ other[k].code = sprite.walk[k].code

C20_Witness ==
    /\ sprite # NoSprite
    /\ m_bg_ctrl % 2 = 1
    /\ sprite.d.n = 4
    /\ m_spriteram[2] = 255 /\ EntryCode % 2 = 1
    /\ sprite.d.x = ScreenWidth - 511 - 32
    /\ FlipScreen([x |-> sprite.d.x, y |-> sprite.d.y,
                   flipx |-> sprite.d.flipx, flipy |-> sprite.d.flipy], 4).x = 511
    /\ sprite.walk[1].dx = 3 /\ sprite.walk[1].dy = 3

(***************************************************************************)
(* Properties of the frame update (Spec).                                  *)
(***************************************************************************)
\* the value the three passes of this frame leave at pixel address a
Layered(a) ==
    IF a \in DOMAIN sprWr THEN sprWr[a]
    ELSE IF a \in DOMAIN starWr THEN starWr[a]
    ELSE 255

\* C1: the frame update runs fill, draw_background, draw_sprites in this
\* order, so a pixel a sprite wrote holds the sprite value, any other pixel
\* a star wrote holds the star value, and any other pixel of the clip
\* rectangle holds the clear value 0xFF
C1_LayerOrder ==
    pc = "done" =>
        /\ steps = <<"fill", "draw_background", "draw_sprites">>
        /\ \A a \in DOMAIN sprWr \cup DOMAIN starWr :
               Pix(bitmap, AddrY(a), AddrX(a)) = Layered(a)
        /\ \A y \in cliprect.min_y..cliprect.max_y,
              x \in cliprect.min_x..cliprect.max_x :
               Pix(bitmap, y, x) = Layered(PixAddr(y, x))

C1_Witness ==
    /\ pc = "done"
    /\ \E a \in DOMAIN sprWr \cap DOMAIN starWr :
           /\ InRect(cliprect, AddrY(a), AddrX(a))
           /\ sprWr[a] # starWr[a]
           /\ starWr[a] # 255
           /\ Pix(bitmap, AddrY(a), AddrX(a)) = sprWr[a]

\* C2 as stated: no pass of the frame update writes a pixel outside the
\* clip rectangle
C2_ClipSafety ==
    \A a \in DOMAIN starWr \cup DOMAIN sprWr :
        InRect(cliprect, AddrY(a), AddrX(a))

\* C3: a frame update never changes bg_ctrl, bgram, spriteram or the roms,
\* and a second update on the same snapshot leaves the bitmap as the first
\* update left it
C3_Purity ==
    [][ /\ snapshot' = snapshot
        /\ (pc' = "done" /\ frame' >= 2) => SameBitmap(bitmap', prev') ]_vars

C3_Witness ==
    /\ pc = "done"
    /\ frame = 2
    /\ cliprect = PartRect
    /\ \E a \in DOMAIN starWr :
           ~InRect(cliprect, AddrY(a), AddrX(a)) /\ starWr[a] # 0
    /\ DOMAIN sprWr # {}
    /\ SameBitmap(bitmap, prev)

\* the snapshot of scenario A under a clip rectangle covering the bitmap
ScenarioA ==
    /\ m_bg_ctrl = 0
    /\ \A a \in 0..255 : m_bgram[a] = 0
    /\ gfx2 = 0
    /\ pc = "done"
    /\ DOMAIN sprWr = {}
    /\ cliprect = FullRect

\* C5 as stated: after the update of scenario A every pixel is 0xFF
C5_AllClear ==
    ScenarioA =>
        \A y \in 0..(BitmapHeight - 1), x \in 0..(BitmapWidth - 1) :
            Pix(bitmap, y, x) = 255

\* C5 amended: after the update of scenario A every pixel of column 0x5B
\* holds pen 0x00 (the star each candidate draws from a zero rom) and every
\* other pixel holds the clear colour 0xFF
C5_StarColumn ==
    ScenarioA =>
        \A y \in 0..(BitmapHeight - 1), x \in 0..(BitmapWidth - 1) :
            Pix(bitmap, y, x) = IF x = 91 THEN 0 ELSE 255

C5_Witness ==
    /\ ScenarioA
    /\ Pix(bitmap, 0, 91) = 0
    /\ Pix(bitmap, 255, 91) = 0
    /\ Pix(bitmap, 0, 92) = 255

\* the snapshot of scenario B, once its sprite has been drawn
ScenarioB ==
    /\ m_spriteram = ScenarioBEntry
    /\ m_bg_ctrl = 0
    /\ pc = "done"

\* origins <<sx, sy>> of the first (k odd) and of the second (k even)
\* transpen call of each tile
Origins(parity) ==
    {<<blits[k].sx, blits[k].sy>> : k \in {j \in 1..Len(blits) : j % 2 = parity}}

\* C7 as stated: the sprite of scenario B is a 32x32 block with its left
\* edge at x = 256 and its top edge at y = 0x10, with a clone at y - 256
C7_BlockAt256 ==
    ScenarioB =>
        /\ Origins(1) = {<<256 + 8 * i, 16 + 8 * j>> : i, j \in 0..3}
        /\ Origins(0) = {<<256 + 8 * i, 16 + 8 * j - 256>> : i, j \in 0..3}

\* C7 amended: the sprite of scenario B is a 32x32 block with its left edge
\* at x = 0x40 * 2 = 128 and its top edge at y = 0x10, with a clone at
\* y - 256; with a solid pattern the pixels written are exactly those of the
\* block that lie in the clip rectangle
C7_BlockAt128 ==
    ScenarioB =>
        /\ Len(blits) = 32
        /\ Origins(1) = {<<128 + 8 * i, 16 + 8 * j>> : i, j \in 0..3}
        /\ Origins(0) = {<<128 + 8 * i, 16 + 8 * j - 256>> : i, j \in 0..3}
        /\ gfx1 = 1 =>
             /\ DOMAIN sprWr =
                  {PixAddr(y, x) : y \in 16..47, x \in 128..159}
                     \cap {PixAddr(y, x) : y \in cliprect.min_y..cliprect.max_y,
                                           x \in cliprect.min_x..cliprect.max_x}
             /\ \A a \in DOMAIN sprWr :
                    Pix(bitmap, AddrY(a), AddrX(a)) = 1

C7_Witness ==
    /\ ScenarioB
    /\ gfx1 = 1
    /\ cliprect = FullRect
    /\ Pix(bitmap, 16, 128) = 1
    /\ Pix(bitmap, 47, 159) = 1
    /\ Pix(bitmap, 16, 127) # 1

\* C8: both transpen calls of a tile use transparent pen 0xFF, and drawing a
\* sprite leaves every bitmap pixel under a tile pixel that decodes to 0xFF
\* as it was before the sprite was drawn
C8_Transparency ==
    [][ (pc = "draw_sprites" /\ offs' = offs + 4) =>
          \A k \in (Len(blits) + 1)..Len(blits') :
              /\ blits'[k].trans = 255
              /\ \A ty \in 0..7, tx \in 0..7 :
                    LET y == blits'[k].sy + ty
                        x == blits'[k].sx + tx
                    IN  ( /\ TileSrc(gfx1, blits'[k], ty, tx) = 255
                          /\ y \in 0..(BitmapHeight - 1)
                          /\ x \in 0..(BitmapWidth - 1) )
                        => Pix(bitmap', y, x) = Pix(bitmap, y, x) ]_vars

C8_Witness ==
    /\ pc = "draw_sprites"
    /\ DOMAIN sprWr # {}
    /\ \E k \in 1..Len(blits) : \E ty \in 0..7, tx \in 0..7 :
           /\ k % 2 = 0
           /\ TileSrc(gfx1, blits[k], ty, tx) = 255
           /\ InRect(cliprect, blits[k].sy + ty, blits[k].sx + tx)
           /\ PixAddr(blits[k].sy + ty, blits[k].sx + tx) \notin DOMAIN sprWr
           /\ Pix(bitmap, blits[k].sy + ty, blits[k].sx + tx) # 255

(***************************************************************************)
(* Properties of the loops of draw_sprites (SpecLoop).                     *)
(***************************************************************************)
\* entry k (from 1) of the sprite table
TableEntry(k) == SubSeq(m_spriteram, 4 * k - 3, 4 * k)

\* the size n of entry k, from bits 7 and 3 of its code word
EntrySize(k) ==
    LET sel == BitOf(TableEntry(k)[3], 7) * 2 + BitOf(TableEntry(k)[3], 3)
    IN  IF sel = 3 THEN 4 ELSE IF sel = 1 THEN 2 ELSE 1

\* the blits of the first k entries: those of entry 1, then of entry 2, ...
RECURSIVE BlitsUpTo(_)
BlitsUpTo(k) ==
    IF k = 0 THEN <<>>
    ELSE BlitsUpTo(k - 1) \o SpriteCalls(TableEntry(k), m_bg_ctrl)

RECURSIVE BlitCountUpTo(_)
BlitCountUpTo(k) ==
    IF k = 0 THEN 0
    ELSE BlitCountUpTo(k - 1) + 2 * EntrySize(k) * EntrySize(k)

\* a loop that starts at b.start, adds b.inc and stops when its variable
\* equals b.end ends after exactly n iterations
LoopEndsAfter(b, n) ==
    /\ b.start + n * b.inc = b.end
    /\ \A j \in 0..(n - 1) : b.start + j * b.inc # b.end

\* C19: for a sprite table whose length is a multiple of 4, draw_sprites
\* terminates: the dx and dy loops reach their end value in both flip
\* directions, the entries are processed once each in ascending offset order
\* and each entry issues exactly 2*n*n blits
C19_Terminates ==
    /\ []((pc = "draw_sprites" /\ loop = NoLoop) =>
            /\ offs % 4 = 0
            /\ offs <= Len(m_spriteram)
            /\ reads = 0..(offs - 1)
            /\ blits = BlitsUpTo(offs \div 4)
            /\ Len(blits) = BlitCountUpTo(offs \div 4))
    /\ [](pc = "return" =>
            /\ loop = NoLoop
            /\ reads = 0..(Len(m_spriteram) - 1)
            /\ blits = BlitsUpTo(Len(m_spriteram) \div 4)
            /\ Len(blits) = BlitCountUpTo(Len(m_spriteram) \div 4))
    /\ [](loop # NoLoop =>
            /\ loop.d.n = EntrySize((offs \div 4) + 1)
            /\ loop.dx \in (-1)..loop.d.n
            /\ loop.dy \in (-1)..loop.d.n
            /\ LoopEndsAfter(LoopBounds(loop.d.flipx, loop.d.n), loop.d.n)
            /\ LoopEndsAfter(LoopBounds(loop.d.flipy, loop.d.n), loop.d.n))
    /\ (pc = "draw_sprites") ~> (pc = "return")

C19_Witness ==
    /\ pc = "return"
    /\ m_bg_ctrl = 1
    /\ m_spriteram = EdgeEntry \o ScenarioBEntry
    /\ Len(blits) = 8 + 32
    /\ blits[1].code # blits[9].code
    /\ blits[1].flipx = 0
    /\ blits[9].flipx # 0 /\ blits[9].flipy # 0

(***************************************************************************)
(* Properties of the Pooyan interrupt handlers (SpecPooyan).               *)
(***************************************************************************)
\* the last handler call made
LastCall == irq_log[Len(irq_log)]

\* C15: under any interleaving of vblank_irq(state) and irq_enable_w(state)
\* calls that starts with the NMI line clear, whenever the line is asserted
\* m_irq_enable is true, and irq_enable_w(0) always leaves the line cleared
C15_NmiGated ==
    /\ nmi = "ASSERT_LINE" => m_irq_enable # 0
    /\ (irq_log # <<>> /\ LastCall = [handler |-> "irq_enable_w", state |-> 0])
           => nmi = "CLEAR_LINE" /\ m_irq_enable = 0

C15_Witness ==
    /\ Len(irq_log) = 4
    /\ irq_log[1] = [handler |-> "irq_enable_w", state |-> 1]
    /\ irq_log[2] = [handler |-> "vblank_irq", state |-> 1]
    /\ irq_log[3] = [handler |-> "vblank_irq", state |-> 0]
    /\ irq_log[4] = [handler |-> "irq_enable_w", state |-> 0]
    /\ nmi = "CLEAR_LINE"

\* C16: an asserted NMI line stays asserted until the next irq_enable_w(0);
\* vblank_irq(0) and irq_enable_w(1) never change the line; the line becomes
\* asserted only at a vblank_irq(1) made while m_irq_enable is true
C16_NmiLatched ==
    [][ LET call == irq_log'[Len(irq_log')]
        IN  /\ (nmi = "ASSERT_LINE" /\ nmi' # "ASSERT_LINE")
                  => call = [handler |-> "irq_enable_w", state |-> 0]
            /\ (nmi = "ASSERT_LINE"
                  /\ call # [handler |-> "irq_enable_w", state |-> 0])
                  => nmi' = "ASSERT_LINE"
            /\ call = [handler |-> "vblank_irq", state |-> 0] => nmi' = nmi
            /\ call = [handler |-> "irq_enable_w", state |-> 1] => nmi' = nmi
            /\ (nmi # "ASSERT_LINE" /\ nmi' = "ASSERT_LINE")
                  => /\ call = [handler |-> "vblank_irq", state |-> 1]
                     /\ m_irq_enable # 0
            /\ (call = [handler |-> "vblank_irq", state |-> 1]
                  /\ m_irq_enable # 0) => nmi' = "ASSERT_LINE" ]_vars

C16_Witness ==
    /\ Len(irq_log) = 4
    /\ irq_log[1] = [handler |-> "irq_enable_w", state |-> 1]
    /\ irq_log[2] = [handler |-> "vblank_irq", state |-> 1]
    /\ irq_log[3] = [handler |-> "vblank_irq", state |-> 0]
    /\ irq_log[4] = [handler |-> "irq_enable_w", state |-> 1]
    /\ nmi = "ASSERT_LINE"

====
